---------------------------- MODULE Spec2Model ----------------------------
(***************************************************************************)
(* A model of the firestore-service wrapper: path validation               *)
(* (firestoreService.ts), the request limiter (RequestLimiter, carried at  *)
(* the end of firestoreModel.ts), the data converter                       *)
(* (FirestoreDataConverter.ts) and the CRUD methods of FirestoreService    *)
(* over a document table that stands for the wrapped database.             *)
(*                                                                         *)
(* Strings are sequences of one-character strings, so that startsWith,     *)
(* endsWith and split("/") are computed as JavaScript computes them.       *)
(***************************************************************************)
EXTENDS Integers, Sequences, FiniteSets, TLC

VARIABLES
  now,                        \* Date.now(), in milliseconds
  requestTimestamps,          \* RequestLimiter.requestTimestamps
  documentRequestLog,         \* RequestLimiter.documentRequestLog (Map path -> number[])
  collectionFetchRequestLog,  \* RequestLimiter.collectionFetchRequestLog
  subscriptionRequestLog,     \* RequestLimiter.subscriptionRequestLog
  made,                       \* history: per class and key, time -> requests made
  accepted,                   \* history: per class and key, time -> requests not rejected
  lastReq,                    \* history: the last limiter call and its outcome
  ticks,                      \* number of clock advances so far
  nreq,                       \* number of limiter calls so far
  db,                         \* the database: document path -> stored fields
  nextAuto,                   \* how many identifiers addDoc has generated, plus one
  last,                       \* history: the last service call, its result, the table before it
  nops,                       \* number of service calls so far
  path,                       \* the string handed to the path validators
  colVerdict,                 \* outcome of validateCollectionPathSegments(path)
  docVerdict,                 \* outcome of validateDocumentPathSegments(path)
  batchPhase,                 \* the WriteBatch: "none", "open" or "committed"
  batchOps,                   \* the operations queued in the WriteBatch
  batchAsked,                 \* history: every ...InBatch call made on the batch
  applied,                    \* history: time -> document writes that took effect
  queryOpts,                  \* the options of the last queryCollection call
  convIn,                     \* the data handed to the converter
  convStored,                 \* toFirestore(convIn), once computed
  convOut,                    \* fromFirestore of the stored form, once computed
  subs,                       \* the onSnapshot listeners: id -> subscription
  hostDown,                   \* the host ended on an uncaught exception
  delPending,                 \* deleteCollection between getDocs and commit
  inst                        \* a FirestoreModel instance: its _id and fields

limiterVars == <<requestTimestamps, documentRequestLog, collectionFetchRequestLog,
                 subscriptionRequestLog>>
historyVars == <<made, accepted, lastReq, ticks, nreq>>
storeVars == <<db, nextAuto, last, nops>>
pathVars == <<path, colVerdict, docVerdict>>
batchVars == <<batchPhase, batchOps, batchAsked>>
queryVars == <<queryOpts>>
convVars == <<convIn, convStored, convOut>>
otherVars == <<batchVars, queryVars, convVars>>
restVars == <<hostDown, delPending, inst>>
vars == <<now, limiterVars, historyVars, storeVars, pathVars, otherVars, applied, subs,
          restVars>>

-----------------------------------------------------------------------------
(* Strings *)

Slash == "/"

\* The alphabet the path validators are exercised on.
Alphabet == {"a", Slash}

\* Longest string handed to the path validators.
MaxPathLen == 5

Strings(n) == UNION {[1..k -> Alphabet] : k \in 0..n}

\* String.prototype.startsWith / endsWith with a one-character argument.
StartsWith(s, ch) == Len(s) >= 1 /\ s[1] = ch
EndsWith(s, ch) == Len(s) >= 1 /\ s[Len(s)] = ch

\* String.prototype.split("/"): the pieces between the separators, empty
\* pieces included; "" splits into one empty piece.
RECURSIVE SplitFrom(_, _, _)
SplitFrom(s, i, cur) ==
  IF i > Len(s) THEN <<cur>>
  ELSE IF s[i] = Slash THEN <<cur>> \o SplitFrom(s, i + 1, <<>>)
  ELSE SplitFrom(s, i + 1, Append(cur, s[i]))

Split(s) == SplitFrom(s, 1, <<>>)

-----------------------------------------------------------------------------
(* Path validation: FirestoreService.validate...  The result is "ok" or the *)
(* message of the Error thrown.                                             *)

ErrEmpty == "Path cannot be empty"
ErrSlash == "Path cannot start or end with '/'"
ErrCollectionParity == "Collection path must have an odd number of segments"
ErrDocumentParity == "Document path must have an even number of segments"
ErrDocumentShort == "Document path must have at least two segments."

validatePathBasic(p) ==
  IF p = <<>> THEN ErrEmpty
  ELSE IF StartsWith(p, Slash) \/ EndsWith(p, Slash) THEN ErrSlash
  ELSE "ok"

validateCollectionPathSegments(p) ==
  IF validatePathBasic(p) # "ok" THEN validatePathBasic(p)
  ELSE LET segments == Split(p)
       IN IF Len(segments) % 2 # 1 THEN ErrCollectionParity ELSE "ok"

\* A variant that only asks for two segments or more.
validateDocumentPathSegmentsNoParity(p) ==
  IF validatePathBasic(p) # "ok" THEN validatePathBasic(p)
  ELSE IF Len(Split(p)) < 2 THEN ErrDocumentShort ELSE "ok"

validateDocumentPathSegments(p) ==
  IF validatePathBasic(p) # "ok" THEN validatePathBasic(p)
  ELSE LET segments == Split(p)
       IN IF Len(segments) % 2 # 0 THEN ErrDocumentParity
          ELSE IF Len(segments) < 2 THEN ErrDocumentShort
          ELSE "ok"

validateDocumentPath(p) == validateDocumentPathSegments(p)

PathErrors == {ErrEmpty, ErrSlash, ErrCollectionParity, ErrDocumentParity,
               ErrDocumentShort}

-----------------------------------------------------------------------------
(* RequestLimiter *)

maxRequestsPerMinute == 500
maxDocumentRequestsPerMinute == 30
maxSubscriptionRequestsPerMinute == 30
maxCollectionFetchRequestsPerMinute == 20

\* The window of both filters: timestamp => now - timestamp < 60000.
WindowMs == 60000

\* A variant that keeps a timestamp exactly 60000 ms old.
FilterWindowInclusive(timestamps, t) ==
  SelectSeq(timestamps, LAMBDA x : t - x <= WindowMs)

\* timestamps.filter(timestamp => now - timestamp < 60000)
FilterWindow(timestamps, t) == SelectSeq(timestamps, LAMBDA x : t - x < WindowMs)

EmptyLog == [k \in {} |-> <<>>]

\* A variant that takes the timestamp of a rejected call out again.
logGeneralRequestDropRejected(timestamps, t) ==
  LET kept == FilterWindow(Append(timestamps, t), t)
  IN IF Len(kept) > maxRequestsPerMinute
       THEN [log |-> FilterWindow(timestamps, t), ok |-> FALSE]
       ELSE [log |-> kept, ok |-> TRUE]

\* logGeneralRequest at time t: push, replace the list by the filtered one,
\* compare the filtered list's length.  ok is FALSE when it throws.
logGeneralRequest(timestamps, t) ==
  LET pushed == Append(timestamps, t)
      kept == FilterWindow(pushed, t)
  IN [log |-> kept, ok |-> ~(Len(kept) > maxRequestsPerMinute)]

\* A variant that compares before it pushes.
logSpecificRequestCheckFirst(log, p, maxRequests, t) ==
  LET present == IF p \in DOMAIN log THEN log ELSE (p :> <<>>) @@ log
      kept == FilterWindow(present[p], t)
  IN [log |-> [present EXCEPT ![p] = Append(kept, t)],
      ok |-> ~(Len(kept) > maxRequests)]

\* logSpecificRequest at time t: push onto the stored list, store the
\* filtered copy, compare the length of the list that was pushed onto (the
\* filter does not shorten it).
logSpecificRequest(log, p, maxRequests, t) ==
  LET present == IF p \in DOMAIN log THEN log ELSE (p :> <<>>) @@ log
      timestamps == Append(present[p], t)
  IN [log |-> [present EXCEPT ![p] = FilterWindow(timestamps, t)],
      ok |-> ~(Len(timestamps) > maxRequests)]

\* History of limiter calls, kept as counts per time.
GeneralKey == <<"general", <<>>>>
EmptyBag == [k \in {} |-> 0]
BagOf(h, key) == IF key \in DOMAIN h THEN h[key] ELSE EmptyBag
CountAt(b, t) == IF t \in DOMAIN b THEN b[t] ELSE 0
BumpBy(h, key, t, n) ==
  IF n = 0 THEN h
  ELSE (key :> ((t :> (CountAt(BagOf(h, key), t) + n)) @@ BagOf(h, key))) @@ h

RECURSIVE BagSum(_, _)
BagSum(b, ts) ==
  IF ts = {} THEN 0
  ELSE LET t == CHOOSE x \in ts : TRUE IN b[t] + BagSum(b, ts \ {t})

\* Calls recorded in b with a time in [lo, hi].
CountBetween(b, lo, hi) == BagSum(b, {t \in DOMAIN b : lo <= t /\ t <= hi})

Ceiling(class) ==
  CASE class = "general" -> maxRequestsPerMinute
    [] class = "document" -> maxDocumentRequestsPerMinute
    [] class = "collection" -> maxCollectionFetchRequestsPerMinute
    [] class = "subscription" -> maxSubscriptionRequestsPerMinute

NoReq == [key |-> GeneralKey, t |-> -1, ok |-> TRUE]

\* The limiter's state after one call of the given class, with the history.
LimiterCall(class, p) ==
  LET r == CASE class = "general" -> logGeneralRequest(requestTimestamps, now)
             [] class = "document" ->
                  logSpecificRequest(documentRequestLog, p,
                                     maxDocumentRequestsPerMinute, now)
             [] class = "collection" ->
                  logSpecificRequest(collectionFetchRequestLog, p,
                                     maxCollectionFetchRequestsPerMinute, now)
             [] class = "subscription" ->
                  logSpecificRequest(subscriptionRequestLog, p,
                                     maxSubscriptionRequestsPerMinute, now)
      key == <<class, p>>
  IN /\ requestTimestamps' =
          IF class = "general" THEN r.log ELSE requestTimestamps
     /\ documentRequestLog' =
          IF class = "document" THEN r.log ELSE documentRequestLog
     /\ collectionFetchRequestLog' =
          IF class = "collection" THEN r.log ELSE collectionFetchRequestLog
     /\ subscriptionRequestLog' =
          IF class = "subscription" THEN r.log ELSE subscriptionRequestLog
     /\ made' = BumpBy(made, key, now, 1)
     /\ accepted' = BumpBy(accepted, key, now, IF r.ok THEN 1 ELSE 0)
     /\ lastReq' = [key |-> key, t |-> now, ok |-> r.ok]
     /\ nreq' = nreq + 1

-----------------------------------------------------------------------------
(* Values.  A value is a record [t, n, ns, s, m, l]: t is its kind; n the  *)
(* number (milliseconds for a Date, seconds for a Timestamp, 1 or 0 for a   *)
(* boolean); ns the Timestamp's nanoseconds; s the string; m the fields of  *)
(* a mapping and l the elements of a list, each a value in turn.            *)

NoFields == [k \in {} |-> 0]

Undefined ==
  [t |-> "undefined", n |-> 0, ns |-> 0, s |-> <<>>, m |-> NoFields, l |-> <<>>]
Null == [t |-> "null", n |-> 0, ns |-> 0, s |-> <<>>, m |-> NoFields, l |-> <<>>]
Num(i) == [t |-> "number", n |-> i, ns |-> 0, s |-> <<>>, m |-> NoFields, l |-> <<>>]
Str(str) == [t |-> "string", n |-> 0, ns |-> 0, s |-> str, m |-> NoFields, l |-> <<>>]
Bool(b) ==
  [t |-> "boolean", n |-> IF b THEN 1 ELSE 0, ns |-> 0, s |-> <<>>, m |-> NoFields,
   l |-> <<>>]
DateMs(ms) == [t |-> "Date", n |-> ms, ns |-> 0, s |-> <<>>, m |-> NoFields, l |-> <<>>]
TimestampOf(sec, nanos) ==
  [t |-> "Timestamp", n |-> sec, ns |-> nanos, s |-> <<>>, m |-> NoFields, l |-> <<>>]
Obj(fields) == [t |-> "object", n |-> 0, ns |-> 0, s |-> <<>>, m |-> fields, l |-> <<>>]
List(items) == [t |-> "array", n |-> 0, ns |-> 0, s |-> <<>>, m |-> NoFields, l |-> items]

\* Timestamp.fromDate and Timestamp.prototype.toDate of the SDK.
TimestampFromDate(d) == TimestampOf(d.n \div 1000, (d.n % 1000) * 1000000)
TimestampToDate(ts) == DateMs(ts.n * 1000 + ts.ns \div 1000000)

\* JavaScript falsiness, for transformDates(data) || {}.
Falsy(v) ==
  \/ v.t \in {"undefined", "null"}
  \/ v.t = "number" /\ v.n = 0
  \/ v.t = "boolean" /\ v.n = 0
  \/ v.t = "string" /\ v.s = <<>>

-----------------------------------------------------------------------------
(* createFirestoreDataConverter *)

\* transformDates of toFirestore, on every key of a mapping
RECURSIVE transformDates(_)
transformDates(obj) ==
  IF obj.t \in {"null", "undefined"} THEN Undefined
  ELSE IF obj.t = "Date" THEN TimestampFromDate(obj)
  ELSE IF obj.t = "Timestamp" THEN obj
  ELSE IF obj.t = "array"
    THEN List(SelectSeq([i \in 1..Len(obj.l) |-> transformDates(obj.l[i])],
                        LAMBDA val : val # Undefined))
  ELSE IF obj.t = "object"
    THEN Obj([k \in {j \in DOMAIN obj.m : transformDates(obj.m[j]) # Undefined}
                |-> transformDates(obj.m[k])])
  ELSE obj

\* A variant that answers null where nothing is left of the input.
toFirestoreNullDefault(data) ==
  IF Falsy(transformDates(data)) THEN Null ELSE transformDates(data)

toFirestore(data) ==
  IF Falsy(transformDates(data)) THEN Obj(NoFields) ELSE transformDates(data)

RECURSIVE transformTimestamps(_)
transformTimestamps(obj) ==
  IF obj.t \in {"null", "undefined"} THEN obj
  ELSE IF obj.t = "Timestamp" THEN TimestampToDate(obj)
  ELSE IF obj.t = "array"
    THEN List([i \in 1..Len(obj.l) |-> transformTimestamps(obj.l[i])])
  ELSE IF obj.t = "object"
    THEN Obj([k \in DOMAIN obj.m |-> transformTimestamps(obj.m[k])])
  ELSE obj

\* fromFirestore(snapshot): { ...transformTimestamps(snapshot.data()), id: snapshot.id }
fromFirestore(data, id) ==
  Obj(("id" :> Str(id)) @@ transformTimestamps(data).m)

-----------------------------------------------------------------------------
(* The wrapped database: a table from document path to stored fields, and   *)
(* the firebase/firestore calls the service makes on it.                    *)

\* What the SDK's serializer stores for a value handed to it without the
\* converter: a Date becomes a Timestamp, at every depth and in every list.
RECURSIVE Stored(_)
Stored(v) ==
  IF v.t = "Date" THEN TimestampFromDate(v)
  ELSE IF v.t = "array" THEN List([i \in 1..Len(v.l) |-> Stored(v.l[i])])
  ELSE IF v.t = "object" THEN Obj([k \in DOMAIN v.m |-> Stored(v.m[k])])
  ELSE v

NoDocs == [k \in {} |-> Obj(NoFields)]

Put(table, p, doc) == (p :> doc) @@ table
Drop(table, p) == [q \in DOMAIN table \ {p} |-> table[q]]

\* setDoc(ref, data): the document becomes exactly data.
sdkSet(table, p, data) == Put(table, p, Stored(data))

\* Fields of old overlaid with the fields of new, key by key at the top level.
Overlay(old, new) ==
  Obj([k \in DOMAIN old.m \cup DOMAIN new.m |->
         IF k \in DOMAIN new.m THEN new.m[k] ELSE old.m[k]])

\* setDoc(ref, data, {merge: true}) writes the leaf fields of data and
\* leaves every other stored field, nested ones included: a non-empty
\* mapping in data is merged into the stored mapping, an empty one replaces.
RECURSIVE MergeInto(_, _)
MergeInto(old, new) ==
  Obj([k \in DOMAIN old.m \cup DOMAIN new.m |->
         IF k \notin DOMAIN new.m THEN old.m[k]
         ELSE IF new.m[k].t = "object" /\ DOMAIN new.m[k].m # {}
           THEN IF k \in DOMAIN old.m /\ old.m[k].t = "object"
                  THEN MergeInto(old.m[k], new.m[k])
                  ELSE new.m[k]
         ELSE new.m[k]])

sdkSetMerge(table, p, data) ==
  IF p \in DOMAIN table THEN Put(table, p, MergeInto(table[p], Stored(data)))
  ELSE Put(table, p, Stored(data))

\* updateDoc(ref, data): each top-level key of data replaces the stored
\* field; the call fails when there is no document.
sdkUpdate(table, p, data) == Put(table, p, Overlay(table[p], Stored(data)))

\* deleteDoc(ref)
sdkDelete(table, p) == Drop(table, p)

\* The identifier of a document path: its last segment.
IdOf(p) == Split(p)[Len(Split(p))]

HasSlash(s) == \E i \in 1..Len(s) : s[i] = Slash

\* p names a document directly under collection c.
IsChildOf(p, c) ==
  /\ Len(p) > Len(c) + 1
  /\ SubSeq(p, 1, Len(c) + 1) = c \o <<Slash>>
  /\ ~HasSlash(SubSeq(p, Len(c) + 2, Len(p)))

\* Document identifiers of the model, in the order the database lists them.
IdOrder == <<<<"1">>, <<"k">>, <<"l">>, <<"m">>, <<"n">>, <<"o">>>>
Rank(id) == CHOOSE i \in 1..Len(IdOrder) : IdOrder[i] = id

\* getDocs(collection): the paths directly under c, ordered by identifier.
RECURSIVE SortedPaths(_)
SortedPaths(ps) ==
  IF ps = {} THEN <<>>
  ELSE LET first == CHOOSE q \in ps : \A r \in ps : Rank(IdOf(q)) <= Rank(IdOf(r))
       IN <<first>> \o SortedPaths(ps \ {first})

sdkGetDocs(table, c) == SortedPaths({q \in DOMAIN table : IsChildOf(q, c)})

\* The identifiers addDoc generates, in the order it generates them; none
\* is generated twice and none is an identifier a caller chose.
AutoIds == <<<<"k">>, <<"l">>, <<"m">>, <<"n">>, <<"o">>>>

-----------------------------------------------------------------------------
(* Initial values *)

InitPathVars == path = <<>> /\ colVerdict = "none" /\ docVerdict = "none"

NoOp ==
  [op |-> "none", path |-> <<>>, data |-> Undefined, options |-> "absent",
   status |-> "none", id |-> <<>>, doc |-> Undefined, list |-> <<>>,
   before |-> NoDocs]

InitStoreVars == db = NoDocs /\ nextAuto = 1 /\ last = NoOp /\ nops = 0

NoQuery == [where |-> {}, orderBy |-> <<>>, limit |-> Undefined,
            startAfter |-> Undefined, endBefore |-> Undefined]

InitBatchVars == batchPhase = "none" /\ batchOps = <<>> /\ batchAsked = <<>>
InitQueryVars == queryOpts = NoQuery
InitConvVars == convIn = Undefined /\ convStored = Undefined /\ convOut = Undefined
NoSubs == [k \in {} |-> 0]
NoInstance == [id |-> Undefined, fields |-> NoFields]
InitRestVars ==
  /\ hostDown = FALSE
  /\ delPending = [active |-> FALSE, path |-> <<>>, docs |-> {}]
  /\ inst = NoInstance
InitOtherVars ==
  InitBatchVars /\ InitQueryVars /\ InitConvVars /\ InitRestVars /\ subs = NoSubs

InitLimiterFresh ==
  /\ now = 0
  /\ requestTimestamps = <<>>
  /\ documentRequestLog = EmptyLog
  /\ collectionFetchRequestLog = EmptyLog
  /\ subscriptionRequestLog = EmptyLog
  /\ made = [k \in {} |-> EmptyBag]
  /\ accepted = [k \in {} |-> EmptyBag]
  /\ lastReq = NoReq
  /\ ticks = 0
  /\ nreq = 0

-----------------------------------------------------------------------------
(* The path validators on every string up to MaxPathLen *)

ValidateCollection ==
  /\ colVerdict = "none"
  /\ colVerdict' = validateCollectionPathSegments(path)
  /\ UNCHANGED <<now, limiterVars, historyVars, storeVars, path, docVerdict,
               otherVars, applied, subs,
                 restVars>>

ValidateDocument ==
  /\ docVerdict = "none"
  /\ docVerdict' = validateDocumentPathSegments(path)
  /\ UNCHANGED <<now, limiterVars, historyVars, storeVars, path, colVerdict,
               otherVars, applied, subs,
                 restVars>>

InitPath ==
  /\ InitLimiterFresh
  /\ InitStoreVars
  /\ InitOtherVars
  /\ applied = EmptyBag
  /\ path \in Strings(MaxPathLen)
  /\ colVerdict = "none"
  /\ docVerdict = "none"

NextPath == ValidateCollection \/ ValidateDocument

SpecPath == InitPath /\ [][NextPath]_vars

-----------------------------------------------------------------------------
(* The limiter under a clock *)

\* Paths the limiter is called with.
P1 == <<"c", Slash, "1">>
P2 == <<"c">>
LimiterPaths == {P1, P2}

\* Clock advances, in milliseconds.
TickSteps == {1, 59999, 61000}

\* Most clock advances, and most limiter calls after the initial burst.
MaxTicks == 2
MaxReq == 2

Classes == {"general", "document", "collection", "subscription"}
KeyPath(class) == IF class = "general" THEN <<>> ELSE P1

\* n calls at time 0 leave n entries of 0 in the list: every call pushes 0
\* and the filter keeps it (0 - 0 < 60000), whether or not the call throws.
Filled(n) == [i \in 1..n |-> 0]
FilledLog(n) == IF n = 0 THEN EmptyLog ELSE (P1 :> Filled(n))

\* The limiter after a burst of n <= Ceiling(class) calls of one class at
\* time 0, for P1 when the class is per path; none of them was rejected.
AfterBurst(class, n) ==
  LET key == <<class, KeyPath(class)>>
  IN /\ now = 0
     /\ requestTimestamps = Filled(IF class = "general" THEN n ELSE 0)
     /\ documentRequestLog = FilledLog(IF class = "document" THEN n ELSE 0)
     /\ collectionFetchRequestLog = FilledLog(IF class = "collection" THEN n ELSE 0)
     /\ subscriptionRequestLog = FilledLog(IF class = "subscription" THEN n ELSE 0)
     /\ made = BumpBy([k \in {} |-> EmptyBag], key, 0, n)
     /\ accepted = BumpBy([k \in {} |-> EmptyBag], key, 0, n)
     /\ lastReq = NoReq
     /\ ticks = 0
     /\ nreq = 0

InitLimiter ==
  /\ InitPathVars
  /\ InitStoreVars
  /\ InitOtherVars
  /\ applied = EmptyBag
  /\ \E class \in Classes :
       \E n \in {0, Ceiling(class) - 1, Ceiling(class)} : AfterBurst(class, n)

Tick ==
  /\ ticks < MaxTicks
  /\ \E step \in TickSteps : now' = now + step
  /\ ticks' = ticks + 1
  /\ UNCHANGED <<limiterVars, made, accepted, lastReq, nreq, storeVars, pathVars,
               otherVars, applied, subs,
                 restVars>>

LogGeneralRequest ==
  /\ nreq < MaxReq
  /\ LimiterCall("general", <<>>)
  /\ UNCHANGED <<now, ticks, storeVars, pathVars, otherVars, applied, subs,
                 restVars>>

LogDocumentRequest ==
  /\ nreq < MaxReq
  /\ \E p \in LimiterPaths : LimiterCall("document", p)
  /\ UNCHANGED <<now, ticks, storeVars, pathVars, otherVars, applied, subs,
                 restVars>>

LogCollectionFetchRequest ==
  /\ nreq < MaxReq
  /\ \E p \in LimiterPaths : LimiterCall("collection", p)
  /\ UNCHANGED <<now, ticks, storeVars, pathVars, otherVars, applied, subs,
                 restVars>>

LogSubscriptionRequest ==
  /\ nreq < MaxReq
  /\ \E p \in LimiterPaths : LimiterCall("subscription", p)
  /\ UNCHANGED <<now, ticks, storeVars, pathVars, otherVars, applied, subs,
                 restVars>>

NextLimiter ==
  \/ Tick
  \/ LogGeneralRequest
  \/ LogDocumentRequest
  \/ LogCollectionFetchRequest
  \/ LogSubscriptionRequest

SpecLimiter == InitLimiter /\ [][NextLimiter]_vars

-----------------------------------------------------------------------------
(* FirestoreService: what each method does to the database once its path    *)
(* is valid and the limiter has let it through.                             *)

\* The options parameter of setDocument: left out, {merge: true} or
\* {merge: false}.  The parameter's default is { merge: true }.
SetOptions == {"absent", "merge:true", "merge:false"}
MergeOf(options) == IF options = "absent" THEN TRUE ELSE options = "merge:true"

\* A variant that treats a missing document as an error.
getDocumentOutcomeThrowing(table, p) ==
  IF p \in DOMAIN table
    THEN [status |-> "ok", doc |-> fromFirestore(table[p], IdOf(p))]
    ELSE [status |-> "not-found", doc |-> Undefined]

\* getDoc(this.docRef(docPath)); docSnap.exists() ? docSnap.data() : null
getDocumentOutcome(table, p) ==
  [status |-> "ok",
   doc |-> IF p \in DOMAIN table THEN fromFirestore(table[p], IdOf(p)) ELSE Null]

\* addDoc(this.colRef(collectionPath), data); return docRef.id
addDocumentOutcome(table, c, data, n) ==
  [status |-> "ok",
   id |-> AutoIds[n],
   table |-> sdkSet(table, c \o <<Slash>> \o AutoIds[n], toFirestore(data))]

\* A variant that merges nested mappings, as setDoc with merge does.
updateDocumentOutcomeDeep(table, p, data) ==
  IF p \in DOMAIN table
    THEN [status |-> "ok", table |-> sdkSetMerge(table, p, data)]
    ELSE [status |-> "not-found", table |-> table]

\* A variant that writes with setDoc and merge, whether or not the document
\* exists.
updateDocumentOutcomeUpsert(table, p, data) ==
  [status |-> "ok",
   table |-> IF p \in DOMAIN table THEN sdkUpdate(table, p, data)
             ELSE sdkSet(table, p, data)]

\* updateDoc(doc(this.db, docPath), data), without the converter
updateDocumentOutcome(table, p, data) ==
  IF p \in DOMAIN table
    THEN [status |-> "ok", table |-> sdkUpdate(table, p, data)]
    ELSE [status |-> "not-found", table |-> table]

\* A variant that never passes the options on.
setDocumentOutcomeNoOptions(table, p, data, options) ==
  [status |-> "ok", table |-> sdkSet(table, p, toFirestore(data))]

\* setDoc(this.docRef(docPath), data, options), through the converter
setDocumentOutcome(table, p, data, options) ==
  [status |-> "ok",
   table |-> IF MergeOf(options) THEN sdkSetMerge(table, p, toFirestore(data))
             ELSE sdkSet(table, p, toFirestore(data))]

\* A variant that requires the document to exist.
deleteDocumentOutcomeStrict(table, p) ==
  IF p \in DOMAIN table
    THEN [status |-> "ok", table |-> sdkDelete(table, p)]
    ELSE [status |-> "not-found", table |-> table]

\* deleteDoc(doc(this.db, docPath))
deleteDocumentOutcome(table, p) ==
  [status |-> "ok", table |-> sdkDelete(table, p)]

\* getDocs(this.colRef(path)); snapshot.docs.map(d => d.data())
fetchCollectionOutcome(table, c) ==
  [status |-> "ok",
   list |-> [i \in 1..Len(sdkGetDocs(table, c)) |->
               fromFirestore(table[sdkGetDocs(table, c)[i]],
                             IdOf(sdkGetDocs(table, c)[i]))]]

-----------------------------------------------------------------------------
(* FirestoreService: the methods *)

\* Most service calls in a behaviour.
MaxOps == 3

ColC == <<"c">>
ColD == <<"d">>
DocC1 == <<"c", Slash, "1">>
DocCK == <<"c", Slash, "k">>

\* Paths handed to the methods that take a document path; ColC is not one.
\* DocCK is the path of the first document addDocument creates under ColC.
DocTargets == {DocC1, DocCK, ColC}
\* Paths handed to updateDocument and setDocument.
WriteTargets == {DocC1, ColC}
\* Paths handed to addDocument and to fetchCollection; DocC1 is no
\* collection path, and nothing is ever written under ColD.
AddTargets == {ColC, DocC1}
FetchTargets == {ColC, ColD, DocC1}

\* Data handed to addDocument, updateDocument and setDocument.
D1 == Obj(("a" :> Obj(("x" :> Num(1)) @@ ("y" :> Num(2)))) @@ ("b" :> Num(1)))
D2 == Obj(("a" :> Obj(("x" :> Num(9)))))
D3 == Obj(("a" :> DateMs(1500)) @@ ("b" :> Null))
InputDocs == {D1, D2, D3}

Called(op, p, data, options, status) ==
  [op |-> op, path |-> p, data |-> data, options |-> options, status |-> status,
   id |-> <<>>, doc |-> Undefined, list |-> <<>>, before |-> db]

RateLimited == "Rate limit exceeded"

LimiterUntouched == UNCHANGED <<limiterVars, made, accepted, lastReq, nreq>>

\* History: n document writes took effect now.
Wrote(n) == applied' = IF n = 0 THEN applied ELSE (now :> (CountAt(applied, now) + n)) @@ applied

\* What a listener's callback is handed for the table: for a document,
\* docSnap.exists() ? docSnap.data() : null; for a collection,
\* snapshot.docs.map(d => d.data()).
Snapshot(table, sub) ==
  IF sub.kind = "doc" THEN getDocumentOutcome(table, sub.path).doc
  ELSE List(fetchCollectionOutcome(table, sub.path).list)

\* onSnapshot of the SDK: after a write, every listener that is not
\* unsubscribed and whose document or collection changed is sent the new
\* snapshot; the snapshots of a listener are numbered as they are sent.
Notify(ss, table) ==
  [s \in DOMAIN ss |->
     IF ss[s].active /\ Snapshot(table, ss[s]) # ss[s].lastData
       THEN [ss[s] EXCEPT !.sent = @ + 1,
                          !.lastData = Snapshot(table, ss[s]),
                          !.pending = Append(@, [stamp |-> ss[s].sent + 1,
                                                 data |-> Snapshot(table, ss[s])])]
       ELSE ss[s]]

Notified == subs' = Notify(subs, db')

GetDocument ==
  /\ nops < MaxOps
  /\ nops' = nops + 1
  /\ \E p \in DocTargets :
       /\ LimiterCall("document", p)
       /\ LET out == getDocumentOutcome(db, p)
              status == IF ~lastReq'.ok THEN RateLimited
                        ELSE IF validateDocumentPath(p) # "ok"
                          THEN validateDocumentPath(p)
                        ELSE out.status
          IN last' = [Called("getDocument", p, Undefined, "absent", status)
                        EXCEPT !.doc = IF status = "ok" THEN out.doc ELSE Undefined]
  /\ UNCHANGED <<now, ticks, db, nextAuto, pathVars, otherVars, applied, subs,
                 restVars>>

AddDocument ==
  /\ nops < MaxOps
  /\ nextAuto <= Len(AutoIds)
  /\ nops' = nops + 1
  /\ \E c \in AddTargets, data \in InputDocs :
       IF validateCollectionPathSegments(c) # "ok"
         THEN /\ LimiterUntouched
              /\ last' = Called("addDocument", c, data, "absent",
                                validateCollectionPathSegments(c))
              /\ UNCHANGED <<db, nextAuto>>
         ELSE /\ LimiterCall("general", <<>>)
              /\ IF ~lastReq'.ok
                   THEN /\ last' = Called("addDocument", c, data, "absent", RateLimited)
                        /\ UNCHANGED <<db, nextAuto>>
                   ELSE LET out == addDocumentOutcome(db, c, data, nextAuto)
                        IN /\ last' = [Called("addDocument", c, data, "absent",
                                              out.status) EXCEPT !.id = out.id]
                           /\ db' = out.table
                           /\ nextAuto' = nextAuto + 1
  /\ Wrote(IF last'.status = "ok" THEN 1 ELSE 0)
  /\ Notified
  /\ UNCHANGED <<now, ticks, pathVars, otherVars, restVars>>

UpdateDocument ==
  /\ nops < MaxOps
  /\ nops' = nops + 1
  /\ \E p \in WriteTargets, data \in InputDocs :
       IF validateDocumentPath(p) # "ok"
         THEN /\ LimiterUntouched
              /\ last' = Called("updateDocument", p, data, "absent",
                                validateDocumentPath(p))
              /\ db' = db
         ELSE /\ LimiterCall("general", <<>>)
              /\ IF ~lastReq'.ok
                   THEN /\ last' = Called("updateDocument", p, data, "absent",
                                          RateLimited)
                        /\ db' = db
                   ELSE LET out == updateDocumentOutcome(db, p, data)
                        IN /\ last' = Called("updateDocument", p, data, "absent",
                                             out.status)
                           /\ db' = out.table
  /\ Wrote(IF last'.status = "ok" THEN 1 ELSE 0)
  /\ Notified
  /\ UNCHANGED <<now, ticks, nextAuto, pathVars, otherVars, restVars>>

SetDocument ==
  /\ nops < MaxOps
  /\ nops' = nops + 1
  /\ \E p \in WriteTargets, data \in InputDocs, options \in SetOptions :
       IF validateDocumentPath(p) # "ok"
         THEN /\ LimiterUntouched
              /\ last' = Called("setDocument", p, data, options,
                                validateDocumentPath(p))
              /\ db' = db
         ELSE /\ LimiterCall("general", <<>>)
              /\ IF ~lastReq'.ok
                   THEN /\ last' = Called("setDocument", p, data, options, RateLimited)
                        /\ db' = db
                   ELSE LET out == setDocumentOutcome(db, p, data, options)
                        IN /\ last' = Called("setDocument", p, data, options,
                                             out.status)
                           /\ db' = out.table
  /\ Wrote(IF last'.status = "ok" THEN 1 ELSE 0)
  /\ Notified
  /\ UNCHANGED <<now, ticks, nextAuto, pathVars, otherVars, restVars>>

DeleteDocument ==
  /\ nops < MaxOps
  /\ nops' = nops + 1
  /\ \E p \in DocTargets :
       IF validateDocumentPath(p) # "ok"
         THEN /\ LimiterUntouched
              /\ last' = Called("deleteDocument", p, Undefined, "absent",
                                validateDocumentPath(p))
              /\ db' = db
         ELSE /\ LimiterCall("general", <<>>)
              /\ IF ~lastReq'.ok
                   THEN /\ last' = Called("deleteDocument", p, Undefined, "absent",
                                          RateLimited)
                        /\ db' = db
                   ELSE LET out == deleteDocumentOutcome(db, p)
                        IN /\ last' = Called("deleteDocument", p, Undefined,
                                             "absent", out.status)
                           /\ db' = out.table
  /\ Wrote(IF last'.status = "ok" THEN 1 ELSE 0)
  /\ Notified
  /\ UNCHANGED <<now, ticks, nextAuto, pathVars, otherVars, restVars>>

FetchCollection ==
  /\ nops < MaxOps
  /\ nops' = nops + 1
  /\ \E c \in FetchTargets :
       IF validateCollectionPathSegments(c) # "ok"
         THEN /\ LimiterUntouched
              /\ last' = Called("fetchCollection", c, Undefined, "absent",
                                validateCollectionPathSegments(c))
         ELSE /\ LimiterCall("collection", c)
              /\ LET out == fetchCollectionOutcome(db, c)
                     status == IF ~lastReq'.ok THEN RateLimited ELSE out.status
                 IN last' = [Called("fetchCollection", c, Undefined, "absent", status)
                               EXCEPT !.list = IF status = "ok" THEN out.list
                                               ELSE <<>>]
  /\ UNCHANGED <<now, ticks, db, nextAuto, pathVars, otherVars, applied, subs,
                 restVars>>

\* The limiter as a service starts with: untouched, or with the general
\* list, or the per-path lists of the paths used here, filled to the
\* ceiling by earlier calls at time 0 (none of which was rejected; the
\* general ones were queryCollection calls, which write nothing).
FilledPaths(ps, n) == [q \in ps |-> Filled(n)]
FilledBags(class, ps, n) == [k \in {<<class, q>> : q \in ps} |-> (0 :> n)]

InitService(generalFull, perPathFull) ==
  /\ now = 0
  /\ requestTimestamps = Filled(IF generalFull THEN maxRequestsPerMinute ELSE 0)
  /\ documentRequestLog =
       IF perPathFull THEN FilledPaths(DocTargets, maxDocumentRequestsPerMinute)
       ELSE EmptyLog
  /\ collectionFetchRequestLog =
       IF perPathFull
         THEN FilledPaths(FetchTargets, maxCollectionFetchRequestsPerMinute)
       ELSE EmptyLog
  /\ subscriptionRequestLog = EmptyLog
  /\ made =
       (IF generalFull THEN (GeneralKey :> (0 :> maxRequestsPerMinute))
        ELSE [k \in {} |-> EmptyBag])
       @@ (IF perPathFull
             THEN FilledBags("document", DocTargets, maxDocumentRequestsPerMinute)
                  @@ FilledBags("collection", FetchTargets,
                                maxCollectionFetchRequestsPerMinute)
           ELSE [k \in {} |-> EmptyBag])
  /\ accepted = made
  /\ lastReq = NoReq
  /\ ticks = 0
  /\ nreq = 0

Init ==
  /\ InitPathVars
  /\ InitStoreVars
  /\ InitOtherVars
  /\ applied = EmptyBag
  /\ \E generalFull \in BOOLEAN, perPathFull \in BOOLEAN :
       InitService(generalFull, perPathFull)

Next ==
  \/ GetDocument
  \/ AddDocument
  \/ UpdateDocument
  \/ SetDocument
  \/ DeleteDocument
  \/ FetchCollection

Spec == Init /\ [][Next]_vars

-----------------------------------------------------------------------------
(* Write batches: getBatch, updateInBatch, setInBatch, deleteInBatch, and   *)
(* the commit of the SDK's WriteBatch, which the caller invokes.            *)

\* doc(this.db, docPath) of the SDK throws on a path that contains "//".
ErrSdkSegment == "Invalid segment. Paths must not contain // in them."
HasDoubleSlash(p) == \E i \in 1..(Len(p) - 1) : p[i] = Slash /\ p[i + 1] = Slash
sdkDoc(p) == IF HasDoubleSlash(p) THEN ErrSdkSegment ELSE "ok"

\* The options parameter of setInBatch defaults to {}: no merge.
BatchSetOptions == {"absent", "merge:true"}
BatchMergeOf(options) == options = "merge:true"

BatchOp(kind, p, data, options) ==
  [kind |-> kind, path |-> p, data |-> data, options |-> options]

\* A variant that queues first and leaves the path to the commit.
updateInBatchOutcomeDeferred(ops, p, data) ==
  [status |-> "ok", ops |-> Append(ops, BatchOp("update", p, data, "absent"))]

\* validateDocumentPath(docPath); doc(this.db, docPath); batch.update(docRef, data)
updateInBatchOutcome(ops, p, data) ==
  IF validateDocumentPath(p) # "ok" THEN [status |-> validateDocumentPath(p), ops |-> ops]
  ELSE IF sdkDoc(p) # "ok" THEN [status |-> sdkDoc(p), ops |-> ops]
  ELSE [status |-> "ok", ops |-> Append(ops, BatchOp("update", p, data, "absent"))]

\* validateDocumentPath(docPath); this.docRef(docPath); batch.set(docRef, data, options)
\* The converter's toFirestore runs inside batch.set.
setInBatchOutcome(ops, p, data, options) ==
  IF validateDocumentPath(p) # "ok" THEN [status |-> validateDocumentPath(p), ops |-> ops]
  ELSE IF sdkDoc(p) # "ok" THEN [status |-> sdkDoc(p), ops |-> ops]
  ELSE [status |-> "ok",
        ops |-> Append(ops, BatchOp("set", p, toFirestore(data), options))]

\* validateDocumentPath(docPath); doc(this.db, docPath); batch.delete(docRef)
deleteInBatchOutcome(ops, p) ==
  IF validateDocumentPath(p) # "ok" THEN [status |-> validateDocumentPath(p), ops |-> ops]
  ELSE IF sdkDoc(p) # "ok" THEN [status |-> sdkDoc(p), ops |-> ops]
  ELSE [status |-> "ok", ops |-> Append(ops, BatchOp("delete", p, Undefined, "absent"))]

\* One queued operation on the table, as the commit applies it; an update
\* of a document that is missing fails.
sdkApply(table, op) ==
  CASE op.kind = "update" ->
         IF op.path \in DOMAIN table
           THEN [status |-> "ok", table |-> sdkUpdate(table, op.path, op.data)]
           ELSE [status |-> "not-found", table |-> table]
    [] op.kind = "set" ->
         [status |-> "ok",
          table |-> IF BatchMergeOf(op.options)
                      THEN sdkSetMerge(table, op.path, op.data)
                      ELSE sdkSet(table, op.path, op.data)]
    [] op.kind = "delete" -> [status |-> "ok", table |-> sdkDelete(table, op.path)]

\* The queued operations from the i-th on, in order, up to the first failure.
RECURSIVE sdkApplyFrom(_, _, _)
sdkApplyFrom(table, ops, i) ==
  IF i > Len(ops) THEN [status |-> "ok", table |-> table]
  ELSE LET r == sdkApply(table, ops[i])
       IN IF r.status # "ok" THEN [status |-> r.status, table |-> table]
          ELSE sdkApplyFrom(r.table, ops, i + 1)

\* A variant that keeps what was applied before the failing operation.
sdkCommitPartial(table, ops) == sdkApplyFrom(table, ops, 1)

\* WriteBatch.commit(): every queued operation in order, or none of them.
sdkCommit(table, ops) ==
  LET r == sdkApplyFrom(table, ops, 1)
  IN [status |-> r.status, table |-> IF r.status = "ok" THEN r.table ELSE table]

\* Most ...InBatch calls on the batch.
MaxBatchCalls == 2

\* "c//1/k": four pieces between the separators, one of them empty.
DocBad == <<"c", Slash, Slash, "1", Slash, "k">>
BatchTargets == {DocC1, DocCK, ColC, DocBad}

\* getBatch(): logGeneralRequest, then writeBatch(this.db)
GetBatch ==
  /\ batchPhase = "none"
  /\ nops < MaxOps
  /\ nops' = nops + 1
  /\ LimiterCall("general", <<>>)
  /\ batchPhase' = IF lastReq'.ok THEN "open" ELSE "none"
  /\ last' = Called("getBatch", <<>>, Undefined, "absent",
                    IF lastReq'.ok THEN "ok" ELSE RateLimited)
  /\ UNCHANGED <<now, ticks, db, nextAuto, batchOps, batchAsked, pathVars,
                 queryVars, convVars, applied, subs,
                 restVars>>

InBatch(out, op) ==
  /\ batchOps' = out.ops
  /\ batchAsked' = Append(batchAsked, op)
  /\ last' = Called(op.kind \o "InBatch", op.path, op.data, op.options, out.status)
  /\ LimiterUntouched
  /\ UNCHANGED <<now, ticks, db, nextAuto, nops, batchPhase, pathVars, queryVars,
                 convVars, applied, subs,
                 restVars>>

UpdateInBatch ==
  /\ batchPhase = "open"
  /\ Len(batchAsked) < MaxBatchCalls
  /\ \E p \in BatchTargets :
       InBatch(updateInBatchOutcome(batchOps, p, D2), BatchOp("update", p, D2, "absent"))

SetInBatch ==
  /\ batchPhase = "open"
  /\ Len(batchAsked) < MaxBatchCalls
  /\ \E p \in BatchTargets, options \in BatchSetOptions :
       InBatch(setInBatchOutcome(batchOps, p, D3, options),
               BatchOp("set", p, D3, options))

DeleteInBatch ==
  /\ batchPhase = "open"
  /\ Len(batchAsked) < MaxBatchCalls
  /\ \E p \in BatchTargets :
       InBatch(deleteInBatchOutcome(batchOps, p),
               BatchOp("delete", p, Undefined, "absent"))

\* batch.commit(), called by the holder of the batch; the service is not
\* involved and the limiter is not consulted.
CommitBatch ==
  /\ batchPhase = "open"
  /\ batchPhase' = "committed"
  /\ LET out == sdkCommit(db, batchOps)
     IN /\ db' = out.table
        /\ last' = Called("commit", <<>>, Undefined, "absent", out.status)
        /\ Wrote(IF out.status = "ok" THEN Len(batchOps) ELSE 0)
  /\ LimiterUntouched
  /\ Notified
  /\ UNCHANGED <<now, ticks, nextAuto, nops, batchOps, batchAsked, pathVars,
                 queryVars, convVars, restVars>>

\* The service before a batch is asked for: no request yet, or n
\* setDocument(DocC1, D1) calls at time 0, each of which wrote the document.
AfterSets(n) ==
  /\ AfterBurst("general", n)
  /\ db = IF n = 0 THEN NoDocs ELSE sdkSet(NoDocs, DocC1, toFirestore(D1))
  /\ applied = IF n = 0 THEN EmptyBag ELSE (0 :> n)
  /\ nextAuto = 1
  /\ last = NoOp
  /\ nops = 0

InitBatch ==
  /\ InitPathVars
  /\ InitOtherVars
  /\ \E n \in {0, maxRequestsPerMinute - 1, maxRequestsPerMinute} : AfterSets(n)

NextBatch ==
  \/ GetBatch
  \/ UpdateInBatch
  \/ SetInBatch
  \/ DeleteInBatch
  \/ CommitBatch
  \/ DeleteDocument

SpecBatch == InitBatch /\ [][NextBatch]_vars

-----------------------------------------------------------------------------
(* queryCollection, and the SDK's query over a collection *)

\* Order of the characters used in string values.
CharOrder == <<"x", "y", "z">>
CharRank(ch) == CHOOSE i \in 1..Len(CharOrder) : CharOrder[i] = ch

RECURSIVE StrLess(_, _)
StrLess(a, b) ==
  IF b = <<>> THEN FALSE
  ELSE IF a = <<>> THEN TRUE
  ELSE IF a[1] = b[1] THEN StrLess(Tail(a), Tail(b))
  ELSE CharRank(a[1]) < CharRank(b[1])

\* The database's order on two values of the same kind.
ValueLess(u, v) == IF u.t = "string" THEN StrLess(u.s, v.s) ELSE u.n < v.n

\* where(field, op, value): the document has the field, with a value of the
\* kind of value that compares as op says.
Satisfies(doc, w) ==
  /\ w.field \in DOMAIN doc.m
  /\ doc.m[w.field].t = w.value.t
  /\ CASE w.op = "==" -> doc.m[w.field] = w.value
       [] w.op = ">" -> ValueLess(w.value, doc.m[w.field])
       [] w.op = "<" -> ValueLess(doc.m[w.field], w.value)

\* The order of the result: the orderBy clauses, or, without any, the field
\* of an inequality filter ascending.
EffectiveOrder(wheres, order) ==
  IF order # <<>> THEN order
  ELSE IF \E w \in wheres : w.op # "=="
    THEN <<[field |-> (CHOOSE w \in wheres : w.op # "==").field, direction |-> "asc"]>>
  ELSE <<>>

\* Document p comes before document q: by the clauses in their order, then
\* by identifier in the direction of the last clause.
RECURSIVE ComesBefore(_, _, _, _, _)
ComesBefore(p, q, table, order, i) ==
  IF i > Len(order)
    THEN IF order # <<>> /\ order[Len(order)].direction = "desc"
           THEN Rank(IdOf(q)) < Rank(IdOf(p))
           ELSE Rank(IdOf(p)) < Rank(IdOf(q))
  ELSE LET a == table[p].m[order[i].field]
           b == table[q].m[order[i].field]
       IN IF a = b THEN ComesBefore(p, q, table, order, i + 1)
          ELSE IF order[i].direction = "desc" THEN ValueLess(b, a)
          ELSE ValueLess(a, b)

RECURSIVE SortedBy(_, _, _)
SortedBy(ps, table, order) ==
  IF ps = {} THEN <<>>
  ELSE LET first == CHOOSE q \in ps :
                      \A r \in ps \ {q} : ComesBefore(q, r, table, order, 1)
       IN <<first>> \o SortedBy(ps \ {first}, table, order)

Take(seq, n) == SubSeq(seq, 1, IF n < Len(seq) THEN n ELSE Len(seq))

\* startAfter(v) / endBefore(v) on the first orderBy clause.
AfterCursor(doc, order, v) ==
  IF order[1].direction = "desc" THEN ValueLess(doc.m[order[1].field], v)
  ELSE ValueLess(v, doc.m[order[1].field])
BeforeCursor(doc, order, v) ==
  IF order[1].direction = "desc" THEN ValueLess(v, doc.m[order[1].field])
  ELSE ValueLess(doc.m[order[1].field], v)

ErrSdkCursor == "Too many arguments provided to startAfter() or endBefore()"
ErrSdkLimit == "Function limit() requires a positive number"

\* query(colReference, ...constraints) and getDocs(q) of the SDK.  In cs a
\* constraint that was not pushed is Undefined (the set or list is empty).
\* A cursor needs an orderBy clause for each of its values; a limit must be
\* positive; an orderBy keeps only the documents that have the field.
sdkQuery(table, c, cs) ==
  IF (cs.startAfter # Undefined \/ cs.endBefore # Undefined) /\ cs.orderBy = <<>>
    THEN [status |-> ErrSdkCursor, paths |-> <<>>]
  ELSE IF cs.limit # Undefined /\ cs.limit.n <= 0
    THEN [status |-> ErrSdkLimit, paths |-> <<>>]
  ELSE
    LET order == EffectiveOrder(cs.where, cs.orderBy)
        matching ==
          {q \in DOMAIN table :
             /\ IsChildOf(q, c)
             /\ \A w \in cs.where : Satisfies(table[q], w)
             /\ \A i \in 1..Len(order) : order[i].field \in DOMAIN table[q].m
             /\ cs.startAfter # Undefined => AfterCursor(table[q], order, cs.startAfter)
             /\ cs.endBefore # Undefined => BeforeCursor(table[q], order, cs.endBefore)}
        sorted == SortedBy(matching, table, order)
    IN [status |-> "ok",
        paths |-> IF cs.limit = Undefined THEN sorted ELSE Take(sorted, cs.limit.n)]

\* JavaScript truthiness of an option: if (options.limit), if (options.startAfter)
Given(v) == IF Falsy(v) THEN Undefined ELSE v

\* A variant that cuts the collection to the limit before it filters.
queryCollectionOutcomeLimitFirst(table, c, options) ==
  LET all == sdkGetDocs(table, c)
      kept == IF Falsy(options.limit) THEN all ELSE Take(all, options.limit.n)
      cut == [q \in {kept[i] : i \in 1..Len(kept)} |-> table[q]]
      r == sdkQuery(cut, c, [where |-> options.where, orderBy |-> options.orderBy,
                             startAfter |-> Given(options.startAfter),
                             endBefore |-> Given(options.endBefore),
                             limit |-> Undefined])
  IN [status |-> r.status,
      list |-> [i \in 1..Len(r.paths) |-> fromFirestore(table[r.paths[i]], IdOf(r.paths[i]))]]

\* A variant that pushes only one of the where clauses.
queryCollectionOutcomeOneWhere(table, c, options) ==
  LET r == sdkQuery(table, c,
                    [where |-> IF options.where = {} THEN {}
                               ELSE {CHOOSE w \in options.where : TRUE},
                     orderBy |-> options.orderBy,
                     startAfter |-> Given(options.startAfter),
                     endBefore |-> Given(options.endBefore),
                     limit |-> Given(options.limit)])
  IN [status |-> r.status,
      list |-> [i \in 1..Len(r.paths) |-> fromFirestore(table[r.paths[i]], IdOf(r.paths[i]))]]

\* The constraints pushed for the options: every where and orderBy clause;
\* startAfter, endBefore and limit when the option is truthy.  Then
\* getDocs(query(...)) and snapshot.docs.map(d => d.data()).
queryCollectionOutcome(table, c, options) ==
  LET r == sdkQuery(table, c, [where |-> options.where, orderBy |-> options.orderBy,
                               startAfter |-> Given(options.startAfter),
                               endBefore |-> Given(options.endBefore),
                               limit |-> Given(options.limit)])
  IN [status |-> r.status,
      list |-> [i \in 1..Len(r.paths) |-> fromFirestore(table[r.paths[i]], IdOf(r.paths[i]))]]

\* Documents of the queried collection: a value and a name each.
QDoc(value, name) == Obj(("value" :> Num(value)) @@ ("name" :> Str(name)))
DocCL == <<"c", Slash, "l">>
\* A document of a subcollection of DocC1, not directly under ColC.
DocSub == <<"c", Slash, "1", Slash, "c", Slash, "m">>

QueryTables ==
  { NoDocs,
    (DocC1 :> QDoc(10, <<"x">>)) @@ (DocCK :> QDoc(20, <<"y">>))
      @@ (DocCL :> QDoc(30, <<"x">>)) @@ (DocSub :> QDoc(20, <<"y">>)),
    (DocC1 :> QDoc(10, <<"y">>)) @@ (DocCK :> QDoc(0, <<"x">>))
      @@ (DocCL :> QDoc(10, <<"x">>)) }

Where(field, op, value) == [field |-> field, op |-> op, value |-> value]
OrderBy(field, direction) == [field |-> field, direction |-> direction]

QueryWheres ==
  SUBSET {Where("value", ">", Num(15)), Where("value", ">", Num(5)),
          Where("name", "==", Str(<<"x">>))}
QueryOrders ==
  { <<>>, <<OrderBy("value", "asc")>>, <<OrderBy("value", "desc")>>,
    <<OrderBy("value", "desc"), OrderBy("name", "asc")>> }
QueryLimits == {Undefined, Num(0), Num(1), Num(2)}
QueryCursors == {Undefined, Num(0), Num(10)}
QueryTargets == {ColC, DocC1}

\* One query in a behaviour: a query changes no document, and a second one
\* meets the database of the first.
QueryCollection ==
  /\ nops = 0
  /\ nops' = nops + 1
  /\ \E c \in QueryTargets, w \in QueryWheres, o \in QueryOrders, l \in QueryLimits,
        sa \in QueryCursors, eb \in QueryCursors :
       LET options == [where |-> w, orderBy |-> o, limit |-> l,
                       startAfter |-> sa, endBefore |-> eb]
       IN /\ queryOpts' = options
          /\ IF validateCollectionPathSegments(c) # "ok"
               THEN /\ LimiterUntouched
                    /\ last' = Called("queryCollection", c, Undefined, "absent",
                                      validateCollectionPathSegments(c))
               ELSE /\ LimiterCall("general", <<>>)
                    /\ LET out == queryCollectionOutcome(db, c, options)
                           status == IF ~lastReq'.ok THEN RateLimited ELSE out.status
                       IN last' = [Called("queryCollection", c, Undefined, "absent",
                                          status)
                                     EXCEPT !.list = IF status = "ok" THEN out.list
                                                     ELSE <<>>]
  /\ UNCHANGED <<now, ticks, db, nextAuto, pathVars, batchVars, convVars, applied, subs,
                 restVars>>

InitQuery ==
  /\ InitPathVars
  /\ InitOtherVars
  /\ applied = EmptyBag
  /\ db \in QueryTables
  /\ nextAuto = 1
  /\ last = NoOp
  /\ nops = 0
  /\ \E generalFull \in BOOLEAN : InitService(generalFull, FALSE)

NextQuery == QueryCollection

SpecQuery == InitQuery /\ [][NextQuery]_vars

-----------------------------------------------------------------------------
(* The converter on documents of every supported kind of value *)

\* Field names of the documents converted; "id" is the name fromFirestore
\* writes the document identifier under.
ConvFields == {"a", "id"}

\* Deepest nesting of mappings and lists in a converted value.
MaxDepth == 1

Scalars ==
  {Null, Num(0), Str(<<"x">>), Bool(FALSE), DateMs(1500), DateMs(-1)}

RECURSIVE ValuesTo(_)
ValuesTo(depth) ==
  IF depth = 0 THEN Scalars
  ELSE LET inner == {Null, DateMs(1500)} \cup (ValuesTo(depth - 1) \ Scalars)
       IN Scalars
            \cup {Obj(("x" :> v)) : v \in inner}
            \cup {List(<<v, Num(1)>>) : v \in inner}
            \cup {Obj(NoFields), List(<<>>)}

ConvInputs == UNION {{Obj(f) : f \in [S -> ValuesTo(MaxDepth)]} : S \in SUBSET ConvFields}

\* snapshot.id of the document the stored form is read from.
ConvId == <<"k">>

ToFirestore ==
  /\ convStored = Undefined
  /\ convStored' = toFirestore(convIn)
  /\ UNCHANGED <<now, limiterVars, historyVars, storeVars, pathVars, batchVars,
                 queryVars, convIn, convOut, applied, subs,
                 restVars>>

FromFirestore ==
  /\ convStored # Undefined
  /\ convOut = Undefined
  /\ convOut' = fromFirestore(Stored(convStored), ConvId)
  /\ UNCHANGED <<now, limiterVars, historyVars, storeVars, pathVars, batchVars,
                 queryVars, convIn, convStored, applied, subs,
                 restVars>>

InitConverter ==
  /\ InitLimiterFresh
  /\ InitStoreVars
  /\ InitPathVars
  /\ InitBatchVars
  /\ InitQueryVars
  /\ InitRestVars
  /\ subs = NoSubs
  /\ applied = EmptyBag
  /\ convIn \in ConvInputs
  /\ convStored = Undefined
  /\ convOut = Undefined

NextConverter == ToFirestore \/ FromFirestore

SpecConverter == InitConverter /\ [][NextConverter]_vars

\* toFirestore on its own, on inputs with undefined values and Timestamps
\* and on a top-level null or undefined.
FixedPoint == TimestampOf(1, 500000000)

RECURSIVE ToFirestoreValues(_)
ToFirestoreValues(depth) ==
  LET base == Scalars \cup {Undefined, FixedPoint}
  IN IF depth = 0 THEN base
     ELSE LET inner == {Null, Undefined, DateMs(1500), FixedPoint}
                         \cup (ToFirestoreValues(depth - 1) \ base)
          IN base
               \cup {Obj(("x" :> v)) : v \in inner}
               \cup {List(<<v, Num(1)>>) : v \in inner}
               \cup {Obj(NoFields), List(<<>>)}

ToFirestoreInputs ==
  {Null, Undefined}
    \cup UNION {{Obj(f) : f \in [S -> ToFirestoreValues(MaxDepth)]} :
                  S \in SUBSET ConvFields}

InitToFirestore ==
  /\ InitLimiterFresh
  /\ InitStoreVars
  /\ InitPathVars
  /\ InitBatchVars
  /\ InitQueryVars
  /\ InitRestVars
  /\ subs = NoSubs
  /\ applied = EmptyBag
  /\ convIn \in ToFirestoreInputs
  /\ convStored = Undefined
  /\ convOut = Undefined

NextToFirestore == ToFirestore

SpecToFirestore == InitToFirestore /\ [][NextToFirestore]_vars

-----------------------------------------------------------------------------
(* subscribeToDocument and subscribeToCollection over the SDK's onSnapshot *)

SubIds == {1, 2}
SubKinds == {"doc", "col"}
SubTargets(kind) == IF kind = "doc" THEN {DocC1} ELSE {ColC}
MaxSubWrites == 1

\* validateDocumentPath / validateCollectionPathSegments, by the method called
subscribeValidation(kind, p) ==
  IF kind = "doc" THEN validateDocumentPath(p) ELSE validateCollectionPathSegments(p)

\* onSnapshot(ref, listener): the listener is registered and sent the
\* current snapshot.  throws says whether the caller's callback throws.
NewSub(kind, p, throws, table) ==
  LET first == Snapshot(table, [kind |-> kind, path |-> p])
  IN [kind |-> kind, path |-> p, throws |-> throws, active |-> TRUE,
      sent |-> 1, lastData |-> first,
      pending |-> <<[stamp |-> 1, data |-> first]>>,
      seen |-> <<>>, unsubCalls |-> 0, cancelledAt |-> 0]

\* A variant of the returned function that does nothing.
unsubscribeOutcomeNoop(sub) == sub

\* The function subscribeTo... returns is the SDK's unsubscribe: the
\* listener is removed and muted, snapshots not yet handed over are dropped;
\* on a listener already removed it does nothing.
unsubscribeOutcome(sub) ==
  IF sub.active THEN [sub EXCEPT !.active = FALSE, !.pending = <<>>] ELSE sub

\* A variant that hands over the newest snapshot first.
deliverOutcomeNewestFirst(sub) ==
  [sub EXCEPT !.seen = Append(@, sub.pending[Len(sub.pending)]),
              !.pending = SubSeq(@, 1, Len(sub.pending) - 1)]

\* The listener of the service runs for the oldest snapshot not yet handed
\* over and calls the caller's callback with its data.
deliverOutcome(sub) ==
  [sub EXCEPT !.seen = Append(@, Head(sub.pending)), !.pending = Tail(@)]

Subscribe ==
  /\ ~hostDown
  /\ \E s \in SubIds, kind \in SubKinds, throws \in BOOLEAN :
     \E p \in SubTargets(kind) :
       /\ s \notin DOMAIN subs
       /\ \A r \in SubIds : r < s => r \in DOMAIN subs
       /\ LET op == IF kind = "doc" THEN "subscribeToDocument"
                    ELSE "subscribeToCollection"
          IN IF subscribeValidation(kind, p) # "ok"
               THEN /\ LimiterUntouched
                    /\ last' = Called(op, p, Undefined, "absent",
                                      subscribeValidation(kind, p))
                    /\ subs' = subs
               ELSE /\ LimiterCall("subscription", p)
                    /\ last' = Called(op, p, Undefined, "absent",
                                      IF lastReq'.ok THEN "ok" ELSE RateLimited)
                    /\ subs' = IF lastReq'.ok
                                 THEN (s :> NewSub(kind, p, throws, db)) @@ subs
                                 ELSE subs
  /\ UNCHANGED <<now, ticks, db, nextAuto, nops, pathVars, otherVars, applied,
                 restVars>>

\* A call of the function a subscribe call returned; it may be called again.
Unsubscribe ==
  /\ ~hostDown
  /\ \E s \in DOMAIN subs :
       /\ subs[s].unsubCalls < 2
       /\ subs' = [subs EXCEPT ![s] =
                     [unsubscribeOutcome(subs[s]) EXCEPT
                        !.unsubCalls = @ + 1,
                        !.cancelledAt = IF subs[s].unsubCalls = 0 THEN subs[s].sent
                                        ELSE @]]
  /\ UNCHANGED <<now, limiterVars, historyVars, storeVars, pathVars, otherVars,
                 applied, restVars>>

\* The SDK hands a listener its next snapshot, in a task of its own, unless
\* the listener was unsubscribed.  When the callback throws, nothing in the
\* service or the SDK catches it: the host reports the uncaught exception
\* and goes on (a browser), or ends (Node.js without a handler).
Deliver ==
  /\ ~hostDown
  /\ \E s \in DOMAIN subs :
       /\ subs[s].active
       /\ subs[s].pending # <<>>
       /\ subs' = [subs EXCEPT ![s] = deliverOutcome(subs[s])]
       /\ IF subs[s].throws THEN hostDown' \in BOOLEAN ELSE hostDown' = hostDown
  /\ UNCHANGED <<now, limiterVars, historyVars, storeVars, pathVars, otherVars,
                 applied, delPending, inst>>

\* Writes of the document the listeners watch, while the host is up.
WriteSubscribed ==
  /\ ~hostDown
  /\ nops < MaxSubWrites
  /\ \/ SetDocument /\ last'.options = "absent" /\ last'.data = D1
     \/ DeleteDocument
  /\ last'.path = DocC1

InitSub ==
  /\ InitPathVars
  /\ InitStoreVars
  /\ InitOtherVars
  /\ applied = EmptyBag
  /\ InitService(FALSE, FALSE)

NextSub == Subscribe \/ Unsubscribe \/ Deliver \/ WriteSubscribed

SpecSub == InitSub /\ [][NextSub]_vars

\* Every snapshot sent is handed over in the end, unless the listener is
\* unsubscribed or the host has ended.
SpecSubFair == SpecSub /\ WF_vars(Deliver)

-----------------------------------------------------------------------------
(* deleteCollection, with the calls that can run while it waits *)

\* Paths handed to deleteCollection; DocC1 is no collection path.
DeleteCollectionTargets == {ColC, DocC1}

NoDelete == [active |-> FALSE, path |-> <<>>, docs |-> {}]

\* snapshot.docs of getDocs(collection(this.db, collectionPath))
deleteCollectionSnapshot(table, c) == {q \in DOMAIN table : IsChildOf(q, c)}

\* batch.delete(d.ref) for every document of the snapshot, then
\* batch.commit(): the documents of the snapshot are gone, nothing else is
\* touched.
deleteCollectionCommit(table, docs) == [q \in DOMAIN table \ docs |-> table[q]]

\* A variant of deleteCollection that logs the request before it validates
\* the path.
DeleteCollectionLimitFirst ==
  /\ nops < MaxOps
  /\ ~delPending.active
  /\ nops' = nops + 1
  /\ \E c \in DeleteCollectionTargets :
       /\ LimiterCall("general", <<>>)
       /\ IF ~lastReq'.ok
            THEN /\ last' = Called("deleteCollection", c, Undefined, "absent",
                                   RateLimited)
                 /\ delPending' = delPending
            ELSE IF validateCollectionPathSegments(c) # "ok"
              THEN /\ last' = Called("deleteCollection", c, Undefined, "absent",
                                     validateCollectionPathSegments(c))
                   /\ delPending' = delPending
              ELSE /\ last' = Called("deleteCollection", c, Undefined, "absent",
                                     "pending")
                   /\ delPending' = [active |-> TRUE, path |-> c,
                                     docs |-> deleteCollectionSnapshot(db, c)]
  /\ UNCHANGED <<now, ticks, db, nextAuto, pathVars, otherVars, applied, subs,
                 hostDown, inst>>

\* deleteCollection(collectionPath) up to the answer of getDocs: the path is
\* validated, the request logged, and the documents of the collection read.
\* The call then waits for the commit; other calls can run meanwhile.
DeleteCollection ==
  /\ nops < MaxOps
  /\ ~delPending.active
  /\ nops' = nops + 1
  /\ \E c \in DeleteCollectionTargets :
       IF validateCollectionPathSegments(c) # "ok"
         THEN /\ LimiterUntouched
              /\ last' = Called("deleteCollection", c, Undefined, "absent",
                                validateCollectionPathSegments(c))
              /\ delPending' = delPending
         ELSE /\ LimiterCall("general", <<>>)
              /\ IF ~lastReq'.ok
                   THEN /\ last' = Called("deleteCollection", c, Undefined,
                                          "absent", RateLimited)
                        /\ delPending' = delPending
                   ELSE /\ last' = Called("deleteCollection", c, Undefined,
                                          "absent", "pending")
                        /\ delPending' = [active |-> TRUE, path |-> c,
                                          docs |-> deleteCollectionSnapshot(db, c)]
  /\ UNCHANGED <<now, ticks, db, nextAuto, pathVars, otherVars, applied, subs,
                 hostDown, inst>>

\* The rest of deleteCollection: the batch of deletes is committed and the
\* call resolves.
DeleteCollectionResolve ==
  /\ delPending.active
  /\ db' = deleteCollectionCommit(db, delPending.docs)
  /\ last' = Called("deleteCollection", delPending.path, Undefined, "absent", "ok")
  /\ delPending' = NoDelete
  /\ Wrote(Cardinality(delPending.docs \cap DOMAIN db))
  /\ Notified
  /\ LimiterUntouched
  /\ UNCHANGED <<now, ticks, nextAuto, nops, pathVars, otherVars, hostDown, inst>>

InitDelete ==
  /\ InitPathVars
  /\ InitStoreVars
  /\ InitOtherVars
  /\ applied = EmptyBag
  /\ \E generalFull \in BOOLEAN : InitService(generalFull, FALSE)

NextDelete ==
  \/ AddDocument
  \/ UpdateDocument
  \/ SetDocument
  \/ DeleteDocument
  \/ DeleteCollection
  \/ DeleteCollectionResolve

SpecDelete == InitDelete /\ [][NextDelete]_vars

-----------------------------------------------------------------------------
(* FirestoreModel.update *)

ErrNotSaved == "Cannot update before saving to Firestore"
ErrNoService == "TypeError"

\* _id of the instances: never set, the empty string, and the identifier of
\* the document c/1.
ModelIds == {Undefined, Str(<<>>), Str(<<"1">>)}

\* The instance's own fields besides _id.
ModelFields == ("a" :> Num(1)) @@ ("b" :> Num(2))

\* Arguments of update.
ModelPatches ==
  {Obj(("a" :> Num(9))), Obj(("a" :> Num(9)) @@ ("b" :> Undefined)), Obj(NoFields)}

\* getDocPath() of the model's subclass: the document of its collection
\* named by _id.
getDocPath(instance) == ColC \o <<Slash>> \o instance.id.s

\* sanitizeData(this): the instance's own properties, _id among them, without
\* those whose value is undefined.
sanitizeData(instance) ==
  LET own == ("_id" :> instance.id) @@ instance.fields
  IN Obj([k \in {j \in DOMAIN own : own[j] # Undefined} |-> own[k]])

\* A variant that puts the old values back when the write is rejected.
updateInstanceRollback(instance, data, status) ==
  IF status = "ok" THEN [instance EXCEPT !.fields = data.m @@ instance.fields]
  ELSE instance

\* Object.assign(this, data): the instance after update, whatever became of
\* the write that follows.
updateInstance(instance, data, status) ==
  [instance EXCEPT !.fields = data.m @@ instance.fields]

\* update(data).  FirestoreService is the default import of a module that
\* exports no default: the call throws a TypeError unless the import is
\* bound to a service, and then it is updateDocument's.
ModelUpdate ==
  /\ nops < MaxOps
  /\ nops' = nops + 1
  /\ \E data \in ModelPatches, bound \in BOOLEAN :
       IF Falsy(inst.id)
         THEN /\ last' = Called("update", <<>>, data, "absent", ErrNotSaved)
              /\ inst' = inst
              /\ db' = db
              /\ LimiterUntouched
         ELSE LET assigned == updateInstance(inst, data, "ok")
                  p == getDocPath(assigned)
                  payload == sanitizeData(assigned)
              IN IF ~bound
                   THEN /\ last' = Called("update", p, data, "absent", ErrNoService)
                        /\ inst' = updateInstance(inst, data, ErrNoService)
                        /\ db' = db
                        /\ LimiterUntouched
                   ELSE IF validateDocumentPath(p) # "ok"
                     THEN /\ last' = Called("update", p, data, "absent",
                                            validateDocumentPath(p))
                          /\ inst' = updateInstance(inst, data, validateDocumentPath(p))
                          /\ db' = db
                          /\ LimiterUntouched
                     ELSE /\ LimiterCall("general", <<>>)
                          /\ IF ~lastReq'.ok
                               THEN /\ last' = Called("update", p, data, "absent",
                                                      RateLimited)
                                    /\ inst' = updateInstance(inst, data, RateLimited)
                                    /\ db' = db
                               ELSE LET out == updateDocumentOutcome(db, p, payload)
                                    IN /\ last' = Called("update", p, data, "absent",
                                                         out.status)
                                       /\ inst' = updateInstance(inst, data, out.status)
                                       /\ db' = out.table
  /\ Wrote(IF last'.status = "ok" THEN 1 ELSE 0)
  /\ Notified
  /\ UNCHANGED <<now, ticks, nextAuto, pathVars, otherVars, hostDown, delPending>>

InitModel ==
  /\ InitPathVars
  /\ InitBatchVars /\ InitQueryVars /\ InitConvVars
  /\ hostDown = FALSE
  /\ delPending = NoDelete
  /\ subs = NoSubs
  /\ applied = EmptyBag
  /\ nextAuto = 1 /\ last = NoOp /\ nops = 0
  /\ db \in {NoDocs, sdkSet(NoDocs, DocC1, D1)}
  /\ \E id \in ModelIds : inst = [id |-> id, fields |-> ModelFields]
  /\ \E generalFull \in BOOLEAN : InitService(generalFull, FALSE)

NextModel == ModelUpdate

SpecModel == InitModel /\ [][NextModel]_vars

-----------------------------------------------------------------------------
(* Claims about the limiter *)

PerPathClasses == {"document", "collection", "subscription"}

\* Calls of the key of the last limiter call made within the 60 s that end
\* with it, itself included.
MadeInWindowOfLast ==
  CountBetween(BagOf(made, lastReq.key), lastReq.t - WindowMs + 1, lastReq.t)

\* C9: a per-path request (document read, collection fetch, subscription) is
\* rejected only if more than the class's ceiling of requests for its path,
\* itself included, were made within the 60 s before it.
C9_RejectedOnlyOverCeiling ==
  (lastReq.key[1] \in PerPathClasses /\ ~lastReq.ok)
    => MadeInWindowOfLast > Ceiling(lastReq.key[1])

\* Accepted calls of a key within the half-open window [t0, t0 + 60000).
AcceptedFrom(key, t0) == CountBetween(accepted[key], t0, t0 + WindowMs - 1)

\* C10: for every class and key, the calls the limiter accepted within any
\* half-open window of 60 000 ms never number more than the class's ceiling.
\* (A window holding accepted calls holds no more of them than the window
\* that starts at the first of them.)
C10_AcceptedWithinCeiling ==
  \A key \in DOMAIN accepted :
    \A t0 \in DOMAIN accepted[key] : AcceptedFrom(key, t0) <= Ceiling(key[1])

\* Accepted calls of the last call's key within the 60 s that end with it.
AcceptedInWindowOfLast ==
  CountBetween(BagOf(accepted, lastReq.key), lastReq.t - WindowMs + 1, lastReq.t)

\* C10 witness: a call was rejected while the 60 s ending with it held as
\* many accepted calls of its key as the ceiling allows, made at two
\* different times.
C10_Witness ==
  /\ ~lastReq.ok
  /\ AcceptedInWindowOfLast = Ceiling(lastReq.key[1])
  /\ Cardinality({t \in DOMAIN BagOf(accepted, lastReq.key) :
                    lastReq.t - t < WindowMs}) >= 2

\* C25: logGeneralRequest records the current time, and throws exactly when
\* the general requests recorded within the last minute, the new one
\* counted, number more than 500.
C25_GeneralThrowsExactlyOverCeiling ==
  (lastReq.key = GeneralKey /\ nreq > 0) =>
    /\ requestTimestamps # <<>>
    /\ requestTimestamps[Len(requestTimestamps)] = lastReq.t
    /\ ~lastReq.ok <=> MadeInWindowOfLast > maxRequestsPerMinute

\* C25 witness: a general request accepted as the 500th of its minute, after
\* requests older than a minute had left the window.
C25_Witness ==
  /\ lastReq.key = GeneralKey
  /\ nreq > 0
  /\ lastReq.ok
  /\ MadeInWindowOfLast = maxRequestsPerMinute
  /\ lastReq.t > 0

\* The list the limiter stores for a key.
StoredOf(key) ==
  LET log == CASE key[1] = "document" -> documentRequestLog
               [] key[1] = "collection" -> collectionFetchRequestLog
               [] key[1] = "subscription" -> subscriptionRequestLog
               [] OTHER -> EmptyLog
  IN IF key[1] = "general" THEN requestTimestamps
     ELSE IF key[2] \in DOMAIN log THEN log[key[2]] ELSE <<>>

\* C28: the limiter stores the timestamp before it compares with the
\* ceiling, so a rejected call stays in the window: after any call the stored
\* window ends with the call's time and holds every call of the last 60 s,
\* rejected ones included.
C28_RejectedCallsStayInWindow ==
  nreq > 0 =>
    /\ StoredOf(lastReq.key) # <<>>
    /\ StoredOf(lastReq.key)[Len(StoredOf(lastReq.key))] = lastReq.t
    /\ Len(StoredOf(lastReq.key)) = MadeInWindowOfLast

\* C28 witness: a call rejected with an earlier rejected call in its window.
C28_Witness ==
  /\ nreq > 0
  /\ ~lastReq.ok
  /\ MadeInWindowOfLast - AcceptedInWindowOfLast >= 2
  /\ Len(StoredOf(lastReq.key)) >= Ceiling(lastReq.key[1]) + 2

-----------------------------------------------------------------------------
(* Claims about path validation *)

\* A string of one or more non-empty segments separated by single '/'.
WellFormed(p) ==
  /\ p # <<>>
  /\ \A i \in 1..Len(Split(p)) : Split(p)[i] # <<>>

\* C1: collection-path validation accepts p exactly when p is one or more
\* non-empty segments separated by single '/' with an odd number of
\* segments, document-path validation exactly when the number is even (at
\* least 2); every other string is rejected with an error.
C1_ValidationMatchesGrammar ==
  /\ colVerdict # "none" =>
       /\ (colVerdict = "ok") <=> (WellFormed(path) /\ Len(Split(path)) % 2 = 1)
       /\ colVerdict # "ok" => colVerdict \in PathErrors
  /\ docVerdict # "none" =>
       /\ (docVerdict = "ok") <=>
            (WellFormed(path) /\ Len(Split(path)) % 2 = 0 /\ Len(Split(path)) >= 2)
       /\ docVerdict # "ok" => docVerdict \in PathErrors

\* C29: no string is accepted by both the collection-path and the
\* document-path validation, and every non-empty string that neither starts
\* nor ends with '/' is accepted by exactly one of them.
C29_ExactlyOneValidatorAccepts ==
  (colVerdict # "none" /\ docVerdict # "none") =>
    /\ ~(colVerdict = "ok" /\ docVerdict = "ok")
    /\ (path # <<>> /\ ~StartsWith(path, Slash) /\ ~EndsWith(path, Slash))
         => (colVerdict = "ok" \/ docVerdict = "ok")

\* C29 witness: a path of three segments, the middle one empty, accepted as
\* a collection path and refused as a document path.
C29_Witness ==
  /\ colVerdict = "ok"
  /\ docVerdict = ErrDocumentParity
  /\ Len(Split(path)) = 3
  /\ ~WellFormed(path)

-----------------------------------------------------------------------------
(* Claims about the documents *)

\* What getDocument(p) resolves to on the given table.
Read(table, p) == getDocumentOutcome(table, p).doc

Succeeded(op) == last.op = op /\ last.status = "ok"

\* The step is a getDocument of the path of the call before it, and resolves.
ReadsBack == last'.op = "getDocument" /\ last'.path = last.path /\ last'.status = "ok"

\* doc has patch[k] for every key k of patch, and for every other key the
\* value it has in had.
PatchedOnTop(doc, patch, had) ==
  /\ DOMAIN doc.m = DOMAIN had.m \cup DOMAIN patch.m
  /\ \A k \in DOMAIN patch.m : doc.m[k] = patch.m[k]
  /\ \A k \in DOMAIN had.m \ DOMAIN patch.m : doc.m[k] = had.m[k]

\* C2: after updateDocument(p, patch) succeeds on an existing document d,
\* the stored document has patch[k] for every top-level key k of patch (a
\* nested mapping replaced wholesale) and for every other key the value it
\* had in d; a getDocument(p) issued next resolves to that document.
C2_UpdateReplacesTopLevelKeys ==
  /\ [](Succeeded("updateDocument") =>
          /\ last.path \in DOMAIN last.before
          /\ PatchedOnTop(db[last.path], Stored(last.data), last.before[last.path]))
  /\ [][(Succeeded("updateDocument") /\ ReadsBack) =>
          PatchedOnTop(last'.doc, last.data, Read(last.before, last.path))]_vars

\* C2 witness: an update whose patch holds a nested mapping with fewer keys
\* than the stored one, on a document with another field.
C2_Witness ==
  /\ Succeeded("updateDocument")
  /\ last.data = D2
  /\ last.before[last.path] = D1
  /\ db[last.path] = Obj(("a" :> Obj(("x" :> Num(9)))) @@ ("b" :> Num(1)))

\* C3: setDocument(p, data) without an options argument creates or
\* completely overwrites: the stored document holds only fields of data, each
\* with the value data gives it, and no field of an earlier document that is
\* absent from data.
C3_SetWithoutOptionsOverwrites ==
  (Succeeded("setDocument") /\ last.options = "absent") =>
    /\ last.path \in DOMAIN db
    /\ DOMAIN db[last.path].m \subseteq DOMAIN last.data.m
    /\ \A k \in DOMAIN db[last.path].m :
         db[last.path].m[k] = Stored(last.data).m[k]

\* C4: updateDocument on a valid document path at which no document exists
\* fails and creates nothing; a getDocument of the path that resolves next
\* resolves to null.
UpdatedMissing ==
  /\ last.op = "updateDocument"
  /\ validateDocumentPath(last.path) = "ok"
  /\ last.path \notin DOMAIN last.before

C4_UpdateOfMissingFails ==
  /\ [](UpdatedMissing => (last.status # "ok" /\ db = last.before))
  /\ [][(UpdatedMissing /\ ReadsBack) => last'.doc = Null]_vars

\* C4 witness: the update was let through by the limiter and failed because
\* the document is missing, with another document in the database.
C4_Witness ==
  /\ UpdatedMissing
  /\ last.status = "not-found"
  /\ db # NoDocs

\* C5: when the limiter does not reject, getDocument on a valid document
\* path without a document resolves to null and fetchCollection on a valid
\* collection path without documents resolves to the empty list.
C5_AbsenceIsNotAnError ==
  /\ (/\ last.op = "getDocument"
      /\ lastReq.ok
      /\ validateDocumentPath(last.path) = "ok"
      /\ last.path \notin DOMAIN last.before)
       => (last.status = "ok" /\ last.doc = Null)
  /\ (/\ last.op = "fetchCollection"
      /\ validateCollectionPathSegments(last.path) = "ok"
      /\ lastReq.ok
      /\ \A q \in DOMAIN last.before : ~IsChildOf(q, last.path))
       => (last.status = "ok" /\ last.list = <<>>)

\* C5 witness: a read of a missing document resolved to null, and a fetch of
\* the collection nothing was written to can follow it, in a database that
\* holds a document.
C5_Witness ==
  /\ Succeeded("getDocument")
  /\ last.path = DocC1
  /\ last.doc = Null
  /\ DocCK \in DOMAIN db

\* C6: deleteDocument on a valid path never fails because the document is
\* absent; a second deleteDocument of the same path leaves the database as
\* the first left it; after a successful deleteDocument(p), getDocument(p)
\* resolves to null.
DeletedThroughLimiter ==
  /\ last.op = "deleteDocument"
  /\ validateDocumentPath(last.path) = "ok"
  /\ lastReq.ok

C6_DeleteIsIdempotent ==
  /\ [](DeletedThroughLimiter => last.status = "ok")
  /\ [](Succeeded("deleteDocument") => Read(db, last.path) = Null)
  /\ [][(/\ Succeeded("deleteDocument")
         /\ last'.op = "deleteDocument"
         /\ last'.path = last.path
         /\ last'.status = "ok") => db' = db]_vars
  /\ [][(Succeeded("deleteDocument") /\ ReadsBack) => last'.doc = Null]_vars

\* C6 witness: a delete of an absent document succeeded while the database
\* holds another document.
C6_Witness ==
  /\ Succeeded("deleteDocument")
  /\ last.path \notin DOMAIN last.before
  /\ db # NoDocs

\* C7: addDocument(c, data) returns an ID different from the ID of every
\* document already in c and from every ID it returned before; afterwards
\* getDocument(c + '/' + ID) resolves to a non-null document that carries
\* data's fields and an id field equal to the returned ID.
C7_AddReturnsFreshReadableId ==
  Succeeded("addDocument") =>
    LET p == last.path \o <<Slash>> \o last.id
    IN /\ p \notin DOMAIN last.before
       /\ \A i \in 1..(nextAuto - 2) : AutoIds[i] # last.id
       /\ Read(db, p) # Null
       /\ \A k \in DOMAIN last.data.m : /\ k \in DOMAIN Read(db, p).m
                                        /\ Read(db, p).m[k] = last.data.m[k]
       /\ Read(db, p).m["id"] = Str(last.id)

\* C8: setDocument(p, data, {merge: true}) creates the document when none
\* exists; when one exists each top-level key of data replaces the stored
\* value wholesale and every other stored key keeps its value.
SetWithMerge == Succeeded("setDocument") /\ last.options = "merge:true"

LeavesWritten(new, patch, old) ==
  /\ DOMAIN new.m = DOMAIN old.m \cup DOMAIN patch.m
  /\ \A k \in DOMAIN old.m \ DOMAIN patch.m : new.m[k] = old.m[k]
  /\ \A k \in DOMAIN patch.m :
       IF /\ patch.m[k].t = "object"
          /\ DOMAIN patch.m[k].m # {}
          /\ k \in DOMAIN old.m
          /\ old.m[k].t = "object"
         THEN /\ new.m[k].t = "object"
              /\ DOMAIN new.m[k].m = DOMAIN old.m[k].m \cup DOMAIN patch.m[k].m
              /\ \A j \in DOMAIN patch.m[k].m : new.m[k].m[j] = patch.m[k].m[j]
              /\ \A j \in DOMAIN old.m[k].m \ DOMAIN patch.m[k].m :
                   new.m[k].m[j] = old.m[k].m[j]
         ELSE new.m[k] = patch.m[k]

-----------------------------------------------------------------------------
(* Claims about write batches and the order of validation and limiting *)

\* Document writes that took effect within the half-open window
\* [t0, t0 + 60000).
AppliedFrom(t0) == CountBetween(applied, t0, t0 + WindowMs - 1)

\* C11: every mutation is recorded in the general window before it is
\* applied, so no 60-second window holds more than 500 document writes that
\* took effect, whether issued directly or through a batch from getBatch.
C11_WritesWithinGeneralCeiling ==
  \A t0 \in DOMAIN applied : AppliedFrom(t0) <= maxRequestsPerMinute

\* C12: getDocument(p) with a path that fails document-path validation fails
\* with the path-validation error whatever the limiter holds, and leaves the
\* document-read window of p as it was.
C12_InvalidGetFailsOnValidation ==
  [][(/\ last'.op = "getDocument"
      /\ nops' = nops + 1
      /\ validateDocumentPath(last'.path) # "ok")
       => /\ last'.status = validateDocumentPath(last'.path)
          /\ documentRequestLog' = documentRequestLog]_vars

\* The place of the last operation queued for p, 0 when there is none.
LastOn(ops, p) ==
  LET at == {i \in 1..Len(ops) : ops[i].path = p}
  IN IF at = {} THEN 0 ELSE CHOOSE i \in at : \A j \in at : j <= i

\* The effect of a queued operation, as a read of the table shows it.
Visible(table, op) ==
  CASE op.kind = "delete" -> op.path \notin DOMAIN table
    [] op.kind = "update" ->
         /\ op.path \in DOMAIN table
         /\ \A k \in DOMAIN op.data.m : /\ k \in DOMAIN table[op.path].m
                                        /\ table[op.path].m[k] = Stored(op.data).m[k]
    [] op.kind = "set" ->
         /\ op.path \in DOMAIN table
         /\ \A k \in DOMAIN op.data.m : /\ k \in DOMAIN table[op.path].m
                                        /\ table[op.path].m[k] = Stored(op.data).m[k]
         /\ op.options = "absent" => DOMAIN table[op.path].m = DOMAIN op.data.m

QueuedPaths == {batchOps[i].path : i \in 1..Len(batchOps)}

\* C13: after batch.commit() either the effect of every queued operation is
\* visible (for each path, that of the last operation queued for it, and
\* nothing else has changed), or, when a queued operation fails, the
\* database is as it was before the commit.
C13_CommitIsAllOrNothing ==
  last.op = "commit" =>
    /\ (\A i \in 1..Len(batchOps) : batchOps[i].kind # "update") => last.status = "ok"
    /\ last.status = "ok" =>
         /\ \A i \in 1..Len(batchOps) :
              i = LastOn(batchOps, batchOps[i].path) => Visible(db, batchOps[i])
         /\ \A q \in (DOMAIN db \cup DOMAIN last.before) \ QueuedPaths :
              q \in DOMAIN db /\ q \in DOMAIN last.before /\ db[q] = last.before[q]
    /\ last.status # "ok" => db = last.before

\* C13 witness: a commit failed on its second operation after a first one
\* that would have changed the database.
C13_Witness ==
  /\ last.op = "commit"
  /\ last.status = "not-found"
  /\ Len(batchOps) = 2
  /\ sdkApply(last.before, batchOps[1]).status = "ok"
  /\ sdkApply(last.before, batchOps[1]).table # last.before
  /\ db = last.before

\* A document path by the grammar: an even number, at least two, of
\* non-empty segments.
GrammarDoc(p) == WellFormed(p) /\ Len(Split(p)) % 2 = 0 /\ Len(Split(p)) >= 2

InBatchCalls == {"updateInBatch", "setInBatch", "deleteInBatch"}

\* What a call leaves in the batch: for a set, the converted data.
QueuedForm(op) == IF op.kind = "set" THEN [op EXCEPT !.data = toFirestore(op.data)] ELSE op

AskedWithValidPath == SelectSeq(batchAsked, LAMBDA op : GrammarDoc(op.path))

\* C14: updateInBatch, setInBatch and deleteInBatch check the path when they
\* are called: a call with an invalid path throws and queues nothing, so the
\* batch holds exactly the operations added with valid paths, in order, and
\* a commit writes to no path of a call that threw.
C14_InBatchValidatesWhenCalled ==
  /\ batchOps = [i \in 1..Len(AskedWithValidPath) |-> QueuedForm(AskedWithValidPath[i])]
  /\ last.op \in InBatchCalls => (last.status = "ok" <=> GrammarDoc(last.path))
  /\ (last.op = "commit" /\ last.status = "ok") =>
       \A i \in 1..Len(batchAsked) :
         ~GrammarDoc(batchAsked[i].path) => batchAsked[i].path \notin DOMAIN db

\* C14 witness: a commit went through on a batch that was asked for one
\* operation with an invalid path and one with a valid path, and wrote.
C14_Witness ==
  /\ last.op = "commit"
  /\ last.status = "ok"
  /\ Len(batchAsked) = 2
  /\ Len(batchOps) = 1
  /\ db # last.before

-----------------------------------------------------------------------------
(* Claims about queryCollection *)

QueryRan == last.op = "queryCollection" /\ last.status = "ok"

\* The path of the i-th document of the result, from its id.
ResultPath(i) == last.path \o <<Slash>> \o last.list[i].m["id"].s
ResultPaths == {ResultPath(i) : i \in 1..Len(last.list)}

\* The documents directly under the queried collection that satisfy every
\* where-predicate of the query.
Matching ==
  {q \in DOMAIN last.before :
     /\ IsChildOf(q, last.path)
     /\ \A w \in queryOpts.where : Satisfies(last.before[q], w)}

\* Every document of the result is a document of the database as a read
\* returns it, and none comes twice.
ResultIsOfDocuments ==
  /\ Cardinality(ResultPaths) = Len(last.list)
  /\ \A i \in 1..Len(last.list) :
       /\ ResultPath(i) \in DOMAIN last.before
       /\ last.list[i] = Read(last.before, ResultPath(i))

\* d1 sorts strictly before d2 by the orderBy clauses in listed priority.
ClauseLess(d1, d2, order) ==
  \E i \in 1..Len(order) :
    /\ \A j \in 1..(i - 1) : d1.m[order[j].field] = d2.m[order[j].field]
    /\ IF order[i].direction = "desc"
         THEN ValueLess(d2.m[order[i].field], d1.m[order[i].field])
         ELSE ValueLess(d1.m[order[i].field], d2.m[order[i].field])

NoCursorOption == queryOpts.startAfter = Undefined /\ queryOpts.endBefore = Undefined

C16_AtMostLimit ==
  (QueryRan /\ queryOpts.limit.t = "number" /\ queryOpts.limit.n >= 0) =>
    Len(last.list) <= queryOpts.limit.n

\* C17: with an orderBy on f ascending, startAfter v returns only documents
\* whose f is strictly greater than v and endBefore v only documents whose f
\* is strictly less than v, for every cursor value v.
C17_CursorBoundsAreStrict ==
  (QueryRan /\ queryOpts.orderBy # <<>> /\ queryOpts.orderBy[1].direction = "asc") =>
    /\ queryOpts.startAfter # Undefined =>
         \A i \in 1..Len(last.list) :
           ValueLess(queryOpts.startAfter, last.list[i].m[queryOpts.orderBy[1].field])
    /\ queryOpts.endBefore # Undefined =>
         \A i \in 1..Len(last.list) :
           ValueLess(last.list[i].m[queryOpts.orderBy[1].field], queryOpts.endBefore)

\* C18: queryCollection with a startAfter or endBefore cursor and no orderBy
\* clause fails with an error.
C18_CursorNeedsOrder ==
  (/\ last.op = "queryCollection"
   /\ queryOpts.orderBy = <<>>
   /\ (queryOpts.startAfter # Undefined \/ queryOpts.endBefore # Undefined))
    => last.status # "ok"

\* C19: when the limiter lets it through, queryCollection with
\* where-predicates (and no limit or cursor) returns without error exactly
\* the documents directly under the collection that satisfy every one of
\* them, the empty list when there is none.
C19_WheresAreConjunctive ==
  (/\ last.op = "queryCollection"
   /\ validateCollectionPathSegments(last.path) = "ok"
   /\ lastReq.ok
   /\ NoCursorOption
   /\ queryOpts.limit = Undefined)
    => /\ last.status = "ok"
       /\ ResultIsOfDocuments
       /\ ResultPaths = Matching

\* C19 witness: two predicates, a document that satisfies only one of them
\* and is not returned, and a document that satisfies both and is.
C19_Witness ==
  /\ QueryRan
  /\ Cardinality(queryOpts.where) = 2
  /\ NoCursorOption
  /\ queryOpts.limit = Undefined
  /\ Len(last.list) = 1
  /\ \E q \in DOMAIN last.before, w \in queryOpts.where :
       IsChildOf(q, last.path) /\ Satisfies(last.before[q], w) /\ q \notin ResultPaths

-----------------------------------------------------------------------------
(* Claims about the converter *)

\* C20: for every document d of supported values (string, number, boolean,
\* null, nested mapping, list, Date) and arbitrary field names (a field named
\* id included), fromFirestore of the stored form of toFirestore(d) has every
\* field of d with an equal value; the only difference is the added id.
C20_RoundTripKeepsFields ==
  convOut # Undefined =>
    /\ \A k \in DOMAIN convIn.m : k \in DOMAIN convOut.m /\ convOut.m[k] = convIn.m[k]
    /\ DOMAIN convOut.m \subseteq DOMAIN convIn.m \cup {"id"}

-----------------------------------------------------------------------------
(* Claims about subscriptions *)

HasSub(s) == s \in DOMAIN subs

\* C21: once the function returned by subscribeToDocument or
\* subscribeToCollection has been called, the callback is never called for a
\* change committed afterwards, and calling the function again does nothing.
C21_UnsubscribeStopsCallbacks ==
  /\ [](\A s \in SubIds :
          (HasSub(s) /\ subs[s].unsubCalls > 0) =>
             \A i \in 1..Len(subs[s].seen) :
                subs[s].seen[i].stamp <= subs[s].cancelledAt)
  /\ [][\A s \in SubIds :
          (HasSub(s) /\ subs[s].unsubCalls > 0
             /\ subs'[s].unsubCalls = subs[s].unsubCalls + 1)
            => subs'[s] = [subs[s] EXCEPT !.unsubCalls = @ + 1]]_vars

\* C21 witness: a subscription unsubscribed twice, whose callback had been
\* called, and whose watched data changed after the first unsubscribe.
C21_Witness ==
  \E s \in SubIds :
    /\ HasSub(s)
    /\ subs[s].unsubCalls = 2
    /\ subs[s].seen # <<>>
    /\ Snapshot(db, subs[s]) # subs[s].lastData

C23_ThrowingCallbackIsIsolated ==
  \A s \in SubIds, r \in SubIds :
    (/\ s # r /\ HasSub(s) /\ HasSub(r)
     /\ subs[s].kind = "doc" /\ subs[r].kind = "doc"
     /\ subs[s].path = subs[r].path
     /\ subs[r].throws /\ ~subs[s].throws
     /\ subs[s].active /\ subs[s].pending # <<>>)
      ~> (HasSub(s) /\ (subs[s].pending = <<>> \/ ~subs[s].active))

-----------------------------------------------------------------------------
(* Claims about deleteCollection and the writes *)

WriteCalls ==
  {"addDocument", "updateDocument", "setDocument", "deleteDocument",
   "deleteCollection"}

\* The validation the method runs on its path argument.
PathVerdict(op, p) ==
  IF op \in {"addDocument", "deleteCollection"}
    THEN validateCollectionPathSegments(p)
    ELSE validateDocumentPath(p)

\* C24: addDocument, updateDocument, setDocument, deleteDocument and
\* deleteCollection called with a path that fails validation fail with the
\* validation error in every limiter state, the database is not called, and
\* every rate-limit window is as it was before the call.
C24_InvalidWriteFailsOnValidation ==
  [][(/\ nops' = nops + 1
      /\ last'.op \in WriteCalls
      /\ PathVerdict(last'.op, last'.path) # "ok")
       => /\ last'.status = PathVerdict(last'.op, last'.path)
          /\ last'.status \in PathErrors
          /\ db' = db
          /\ nextAuto' = nextAuto
          /\ delPending' = delPending
          /\ UNCHANGED limiterVars
          /\ made' = made]_vars

\* C24 witness: deleteCollection of a document path, refused on validation
\* while the general window is at its ceiling.
C24_Witness ==
  /\ last.op = "deleteCollection"
  /\ last.status \in PathErrors
  /\ Len(requestTimestamps) >= maxRequestsPerMinute

\* C27: when deleteCollection(c) resolves, c has no documents, whatever
\* addDocument calls on c resolved before it.
C27_DeleteCollectionLeavesNone ==
  (last.op = "deleteCollection" /\ last.status = "ok")
    => \A q \in DOMAIN db : ~IsChildOf(q, last.path)

\* A value toFirestore treats as absent: undefined, and null, which it
\* converts to undefined.
Absent(v) == v.t \in {"undefined", "null"}

\* The Timestamp of the instant of a Date.
SameInstant(ts, d) ==
  /\ ts.t = "Timestamp"
  /\ ts.ns >= 0 /\ ts.ns < 1000000000
  /\ ts.n * 1000 + ts.ns \div 1000000 = d.n

\* out is in with every Date replaced by its Timestamp and every absent
\* mapping key and list element left out, at every depth.
RECURSIVE IsConversionOf(_, _)
IsConversionOf(out, in) ==
  IF in.t = "Date" THEN SameInstant(out, in)
  ELSE IF in.t = "object"
    THEN /\ out.t = "object"
         /\ DOMAIN out.m = {k \in DOMAIN in.m : ~Absent(in.m[k])}
         /\ \A k \in DOMAIN out.m : IsConversionOf(out.m[k], in.m[k])
  ELSE IF in.t = "array"
    THEN LET kept == SelectSeq(in.l, LAMBDA v : ~Absent(v))
         IN /\ out.t = "array"
            /\ Len(out.l) = Len(kept)
            /\ \A i \in 1..Len(kept) : IsConversionOf(out.l[i], kept[i])
  ELSE out = in

\* C26: toFirestore converts every Date to a Timestamp at every depth, leaves
\* Timestamps, numbers, strings and booleans as they are, leaves out every
\* mapping key and list element whose value is undefined or null, and returns
\* an empty mapping when the input itself is null or undefined.
C26_ToFirestoreConverts ==
  convStored # Undefined =>
    IF Absent(convIn) THEN convStored = Obj(NoFields)
    ELSE IsConversionOf(convStored, convIn)

\* C26 witness: an input with a list that holds an undefined element and a
\* mapping that holds a Date, converted.
C26_Witness ==
  /\ convStored # Undefined
  /\ convIn.t = "object"
  /\ \E k \in DOMAIN convIn.m :
       convIn.m[k].t = "array" /\ Len(convIn.m[k].l) = 2
         /\ convIn.m[k].l[1] = Undefined /\ Len(convStored.m[k].l) = 1
  /\ \E k \in DOMAIN convIn.m :
       convIn.m[k].t = "object" /\ "x" \in DOMAIN convIn.m[k].m
         /\ convIn.m[k].m["x"].t = "Date"

-----------------------------------------------------------------------------
(* Claims about FirestoreModel *)

UpdateCalled == last'.op = "update" /\ nops' = nops + 1

=============================================================================
